---- MODULE Spec2Model ----
(***************************************************************************)
(* Pulse Analytics Discord collector (src/index.js).                       *)
(*                                                                         *)
(* The voice-session tracker (the module-level Map voiceSessions and the   *)
(* async VoiceStateUpdate handler) under Spec, and the MessageCreate       *)
(* handler with saveInteraction under SpecMsg.  A handler runs             *)
(* synchronously up to its first await; every awaited supabase call is a   *)
(* suspension point at which other handlers may start or resume.  One      *)
(* action models one synchronous segment of a handler.  A supabase call    *)
(* takes effect, if it succeeds, when it returns; it may return data,      *)
(* return { error }, or throw, and it may never return.  The clock does    *)
(* not run backwards.  Rows are unique per key (an insert of an existing   *)
(* members or messages_daily row is refused), the date does not change     *)
(* within a run.                                                           *)
(*                                                                         *)
(* Further specifications restrict or pair these handlers: SpecDelivered   *)
(* and SpecCounted (every supabase call succeeds), SpecOne (one message),  *)
(* SpecKeys (two members of two servers), SpecFilters (events of bot       *)
(* accounts, direct messages, GuildMemberAdd and GuildMemberRemove) and    *)
(* SpecTwin (two runs of the tracker on the same events).                  *)
(***************************************************************************)
EXTENDS Integers, Sequences, FiniteSets, TLC

VARIABLES
    now,            \* the wall clock read by new Date(), in milliseconds
    channel,        \* per (server, member): the voice channel the member is in
    voiceSessions,  \* the Map voiceSessions: session key -> open session
    handlers,       \* one entry per VoiceStateUpdate event, in arrival order
    emitted,        \* voice_sessions rows handed to supabase insert, in order
    members,        \* members table: per (server, member) the row, if any
    msgHandlers,    \* one entry per MessageCreate event, in arrival order
    messages_daily, \* messages_daily table: the row of the day's channel, if any
    member_interactions, \* member_interactions table: per edge the row, if any
    memberHandlers, \* one entry per GuildMemberAdd / GuildMemberRemove event
    member_events,  \* member_events rows inserted, in order
    twin            \* a second run of the tracker on the same voice events

msgVars == <<msgHandlers, messages_daily, member_interactions>>
joinVars == <<memberHandlers, member_events>>
vars == <<now, channel, voiceSessions, handlers, emitted, members,
          msgHandlers, messages_daily, member_interactions,
          memberHandlers, member_events, twin>>

----------------------------------------------------------------------------
(* Bounds *)

MaxEvents == 4
MaxBotEvents == 1
MaxMessages == 2
MaxMentions == 1
MaxMentionsAlone == 2
MaxMemberEvents == 2
MaxKeyEvents == 3
MaxTwinEvents == 3
MaxNow == 60000

\* new Date() differences are divided by 60000 (milliseconds per minute)
MsPerMinute == 60000

\* the clock is read in steps of half a minute
TickSteps == {MsPerMinute \div 2}

Servers == {"10"}
Users == {"1"}
Peers == {"2"}
Bots == {"9"}
Accounts == Users \cup Peers \cup Bots
TextChannel == "T"
Channels == {"A", "B"}
NoChannel == "none"

Pairs == Servers \X Users

\* the (server_id, discord_id) pairs of the members table
MemberKeys == Servers \X (Users \cup Bots)

(* An absent value (undefined / null) is the empty sequence, a present     *)
(* value v is <<v>>.                                                       *)
None == <<>>
Some(v) == <<v>>
IsSome(o) == o /= <<>>
Get(o) == o[1]

Outcomes == {"ok", "error", "throw"}

----------------------------------------------------------------------------
(* Pure helpers *)

\* a plausible slip: the key without its separator
sessionKeyUnseparated(serverId, memberId) == serverId \o memberId

\* const sessionKey = `${serverId}-${memberId}`
sessionKey(serverId, memberId) == serverId \o "-" \o memberId

SessionKeys == {sessionKey(p[1], p[2]) : p \in Pairs}

\* channel.name of a channel id
channelName(c) == "#" \o c

\* a plausible slip: Math.floor in place of Math.round
durationMinutesFloor(endedAt, startedAt) == (endedAt - startedAt) \div MsPerMinute

\* Math.round((endedAt - session.startedAt) / 60000): Math.round(x) is
\* floor(x + 0.5), so a half rounds up
durationMinutesOf(endedAt, startedAt) ==
    (2 * (endedAt - startedAt) + MsPerMinute) \div (2 * MsPerMinute)

\* { startedAt: new Date(), channelId: ..., channelName: ... }
newSession(t, c) == [startedAt |-> t, channelId |-> c, channelName |-> channelName(c)]

\* the row given to supabase.from('voice_sessions').insert
sessionRow(sid, mid, session, endedAt) ==
    [server_id |-> sid, member_discord_id |-> mid,
     channel_id |-> session.channelId, channel_name |-> session.channelName,
     started_at |-> session.startedAt, ended_at |-> endedAt,
     duration_minutes |-> durationMinutesOf(endedAt, session.startedAt)]

\* the local variables of one invocation of the VoiceStateUpdate handler
newHandler(sid, mid, kind, old, new, pc, session, at) ==
    [serverId |-> sid, memberId |-> mid, kind |-> kind, old |-> old, new |-> new,
     pc |-> pc, session |-> session, at |-> at,
     durationMinutes |-> IF IsSome(session)
                         THEN durationMinutesOf(at, Get(session).startedAt) ELSE 0,
     memberData |-> None, opened |-> None]

----------------------------------------------------------------------------
\* a members row as the MessageCreate handler inserts it: total_messages 1,
\* total_voice_minutes not given (null)
insertedMemberRow == [total_messages |-> 1, total_voice_minutes |-> None]

\* (memberData.total_voice_minutes || 0)
orZero(o) == IF IsSome(o) THEN Get(o) ELSE 0

\* The process starts with an empty Map; a member may already be in a voice
\* channel and may already have a members row.
Init ==
    /\ now = 0
    /\ channel \in [Pairs -> Channels \cup {NoChannel}]
    /\ voiceSessions = [k \in SessionKeys |-> None]
    /\ handlers = <<>>
    /\ emitted = <<>>
    /\ members \in {f \in [MemberKeys -> {None, Some(insertedMemberRow)}] :
                        \A k \in MemberKeys : k \notin Pairs => f[k] = None}
    /\ msgHandlers = <<>>
    /\ messages_daily = None
    /\ member_interactions = <<>>
    /\ memberHandlers = <<>>
    /\ member_events = <<>>
    /\ twin = [voiceSessions |-> voiceSessions, pc |-> <<>>]

\* time passes between two synchronous segments
Tick ==
    /\ \E d \in TickSteps : now + d <= MaxNow /\ now' = now + d
    /\ UNCHANGED <<channel, voiceSessions, handlers, emitted, members, msgVars, joinVars>>

----------------------------------------------------------------------------
(* VoiceStateUpdate: the synchronous segment run when the event arrives *)

arrive(h) == handlers' = Append(handlers, h)

\* Map.prototype.set / delete on voiceSessions
setSession(key, session) == voiceSessions' = [voiceSessions EXCEPT ![key] = Some(session)]
deleteSession(key) == voiceSessions' = [voiceSessions EXCEPT ![key] = None]

\* a plausible slip: the new session is opened only inside `if (session)`
reopenOnlyAfterClose(key, c, session) ==
    IF IsSome(session) THEN setSession(key, newSession(now, c))
    ELSE UNCHANGED voiceSessions

\* "Iniciar nova sessao" of the move branch: runs whether or not a session
\* was found, and reads the clock again
reopenSession(key, c, session) == setSession(key, newSession(now, c))

\* if (!member || member.user.bot) return;
\* (the handler returns before it reads the channels of the event)
VoiceIgnored(sid, bot) ==
    /\ Len(handlers) < MaxEvents
    /\ Cardinality({i \in 1..Len(handlers) : handlers[i].kind = "bot"}) < MaxBotEvents
    /\ arrive(newHandler(sid, bot, "bot", NoChannel, NoChannel, "done", None, now))
    /\ UNCHANGED <<now, channel, voiceSessions, emitted, members, msgVars, joinVars>>

\* if (!oldState.channel && newState.channel)
VoiceJoin(sid, mid, c) ==
    /\ Len(handlers) < MaxEvents
    /\ channel[<<sid, mid>>] = NoChannel
    /\ channel' = [channel EXCEPT ![<<sid, mid>>] = c]
    /\ setSession(sessionKey(sid, mid), newSession(now, c))
    /\ arrive([newHandler(sid, mid, "join", NoChannel, c, "done", None, now)
                 EXCEPT !.opened = Some(now)])
    /\ UNCHANGED <<now, emitted, members, msgVars, joinVars>>

\* else if (oldState.channel && !newState.channel)
VoiceLeave(sid, mid) ==
    LET old == channel[<<sid, mid>>]
        session == voiceSessions[sessionKey(sid, mid)]
    IN  /\ Len(handlers) < MaxEvents
        /\ old /= NoChannel
        /\ channel' = [channel EXCEPT ![<<sid, mid>>] = NoChannel]
        /\ IF IsSome(session)
           THEN /\ emitted' = Append(emitted, sessionRow(sid, mid, Get(session), now))
                /\ arrive(newHandler(sid, mid, "leave", old, NoChannel,
                                     "leave_insert", session, now))
           ELSE /\ emitted' = emitted
                /\ arrive(newHandler(sid, mid, "leave", old, NoChannel,
                                     "done", session, now))
        /\ UNCHANGED <<now, voiceSessions, members, msgVars, joinVars>>

\* else if (oldState.channel && newState.channel &&
\*          oldState.channel.id !== newState.channel.id)
VoiceMove(sid, mid, c) ==
    LET old == channel[<<sid, mid>>]
        session == voiceSessions[sessionKey(sid, mid)]
    IN  /\ Len(handlers) < MaxEvents
        /\ old /= NoChannel
        /\ c /= old
        /\ channel' = [channel EXCEPT ![<<sid, mid>>] = c]
        /\ IF IsSome(session)
           THEN /\ emitted' = Append(emitted, sessionRow(sid, mid, Get(session), now))
                /\ arrive(newHandler(sid, mid, "move", old, c,
                                     "move_insert", session, now))
                /\ UNCHANGED voiceSessions
           ELSE /\ emitted' = emitted
                /\ reopenSession(sessionKey(sid, mid), c, session)
                /\ arrive([newHandler(sid, mid, "move", old, c, "done", session, now)
                             EXCEPT !.opened = Some(now)])
        /\ UNCHANGED <<now, members, msgVars, joinVars>>

\* a plausible slip: the third branch without its `!==` test, so that an
\* event inside one channel opens a new session
VoiceSameReopens(sid, mid) ==
    LET old == channel[<<sid, mid>>]
    IN  /\ Len(handlers) < MaxEvents
        /\ old /= NoChannel
        /\ setSession(sessionKey(sid, mid), newSession(now, old))
        /\ arrive(newHandler(sid, mid, "same", old, old, "done", None, now))
        /\ UNCHANGED <<now, channel, emitted, members, msgVars, joinVars>>

\* oldState.channel.id === newState.channel.id (mute, deafen, ...): no branch taken
VoiceSame(sid, mid) ==
    LET old == channel[<<sid, mid>>]
    IN  /\ Len(handlers) < MaxEvents
        /\ old /= NoChannel
        /\ arrive(newHandler(sid, mid, "same", old, old, "done", None, now))
        /\ UNCHANGED <<now, channel, voiceSessions, emitted, members, msgVars, joinVars>>

----------------------------------------------------------------------------
(* VoiceStateUpdate: the segments run when an awaited supabase call returns.*)
(* r is what the call did: "ok", "error" ({ error } returned) or "throw".  *)

setPc(i, pc) == handlers' = [handlers EXCEPT ![i].pc = pc]

\* await supabase.from('voice_sessions').insert(...) of the leave branch
LeaveInsertReturns(i, r) ==
    /\ handlers[i].pc = "leave_insert"
    /\ setPc(i, IF r = "throw" THEN "caught" ELSE "leave_select")
    /\ UNCHANGED <<now, channel, voiceSessions, emitted, members, msgVars, joinVars>>

\* await supabase.from('members').select(...).single()
LeaveSelectReturns(i, r) ==
    LET h == handlers[i]
        memberData == IF r = "ok" THEN members[<<h.serverId, h.memberId>>] ELSE None
    IN  /\ h.pc = "leave_select"
        /\ IF r = "throw"
           THEN setPc(i, "caught") /\ UNCHANGED voiceSessions
           ELSE IF IsSome(memberData)
           THEN /\ handlers' = [handlers EXCEPT ![i].pc = "leave_update",
                                                ![i].memberData = memberData]
                /\ UNCHANGED voiceSessions
           ELSE /\ deleteSession(sessionKey(h.serverId, h.memberId))
                /\ setPc(i, "done")
        /\ UNCHANGED <<now, channel, emitted, members, msgVars, joinVars>>

\* await supabase.from('members').update(...); voiceSessions.delete(sessionKey)
LeaveUpdateReturns(i, r) ==
    LET h == handlers[i]
        p == <<h.serverId, h.memberId>>
    IN  /\ h.pc = "leave_update"
        /\ members' = IF r = "ok" /\ IsSome(members[p])
                      THEN [members EXCEPT ![p] = Some([Get(members[p]) EXCEPT
                               !.total_voice_minutes =
                                   Some(orZero(Get(h.memberData).total_voice_minutes)
                                        + h.durationMinutes)])]
                      ELSE members
        /\ IF r = "throw"
           THEN setPc(i, "caught") /\ UNCHANGED voiceSessions
           ELSE /\ deleteSession(sessionKey(h.serverId, h.memberId))
                /\ setPc(i, "done")
        /\ UNCHANGED <<now, channel, emitted, msgVars, joinVars>>

\* await supabase.from('voice_sessions').insert(...) of the move branch,
\* then voiceSessions.set(sessionKey, { startedAt: new Date(), ... })
MoveInsertReturns(i, r) ==
    LET h == handlers[i]
    IN  /\ h.pc = "move_insert"
        /\ IF r = "throw"
           THEN setPc(i, "caught") /\ UNCHANGED voiceSessions
           ELSE /\ reopenSession(sessionKey(h.serverId, h.memberId), h.new, h.session)
                /\ handlers' = [handlers EXCEPT ![i].pc = "done", ![i].opened = Some(now)]
        /\ UNCHANGED <<now, channel, emitted, members, msgVars, joinVars>>

----------------------------------------------------------------------------
Next ==
    \/ Tick /\ UNCHANGED twin
    \/ \E sid \in Servers, b \in Bots : VoiceIgnored(sid, b) /\ UNCHANGED twin
    \/ \E p \in Pairs, c \in Channels : VoiceJoin(p[1], p[2], c) /\ UNCHANGED twin
    \/ \E p \in Pairs : VoiceLeave(p[1], p[2]) /\ UNCHANGED twin
    \/ \E p \in Pairs, c \in Channels : VoiceMove(p[1], p[2], c) /\ UNCHANGED twin
    \/ \E p \in Pairs : VoiceSame(p[1], p[2]) /\ UNCHANGED twin
    \/ \E i \in 1..Len(handlers), r \in Outcomes : LeaveInsertReturns(i, r) /\ UNCHANGED twin
    \/ \E i \in 1..Len(handlers), r \in Outcomes : LeaveSelectReturns(i, r) /\ UNCHANGED twin
    \/ \E i \in 1..Len(handlers), r \in Outcomes : LeaveUpdateReturns(i, r) /\ UNCHANGED twin
    \/ \E i \in 1..Len(handlers), r \in Outcomes : MoveInsertReturns(i, r) /\ UNCHANGED twin

Spec == Init /\ [][Next]_vars

\* the tracker when every supabase call succeeds
NextDelivered ==
    \/ Tick /\ UNCHANGED twin
    \/ \E p \in Pairs, c \in Channels : VoiceJoin(p[1], p[2], c) /\ UNCHANGED twin
    \/ \E p \in Pairs : VoiceLeave(p[1], p[2]) /\ UNCHANGED twin
    \/ \E p \in Pairs, c \in Channels : VoiceMove(p[1], p[2], c) /\ UNCHANGED twin
    \/ \E p \in Pairs : VoiceSame(p[1], p[2]) /\ UNCHANGED twin
    \/ \E i \in 1..Len(handlers) : LeaveInsertReturns(i, "ok") /\ UNCHANGED twin
    \/ \E i \in 1..Len(handlers) : LeaveSelectReturns(i, "ok") /\ UNCHANGED twin
    \/ \E i \in 1..Len(handlers) : LeaveUpdateReturns(i, "ok") /\ UNCHANGED twin
    \/ \E i \in 1..Len(handlers) : MoveInsertReturns(i, "ok") /\ UNCHANGED twin

SpecDelivered == Init /\ [][NextDelivered]_vars

----------------------------------------------------------------------------
(* Two runs of the tracker on the same events: the variables above are the *)
(* first run; twin holds the session table of the second run and the       *)
(* position of each of its handlers. The two runs see every event at the   *)
(* same time and resume a handler in the same step; only what the supabase *)
(* calls answer differs.                                                    *)

twinArrives(table, pc) == twin' = [voiceSessions |-> table, pc |-> Append(twin.pc, pc)]
twinSet(key, session) == [twin.voiceSessions EXCEPT ![key] = Some(session)]
twinDelete(key) == [twin.voiceSessions EXCEPT ![key] = None]

\* voiceSessions.set(sessionKey, ...) of the join branch
TwinJoin(sid, mid, c) ==
    /\ Len(handlers) < MaxTwinEvents
    /\ VoiceJoin(sid, mid, c)
    /\ twinArrives(twinSet(sessionKey(sid, mid), newSession(now, c)), "done")

\* const session = voiceSessions.get(sessionKey); if (session) { await ... }
TwinLeave(sid, mid) ==
    /\ Len(handlers) < MaxTwinEvents
    /\ VoiceLeave(sid, mid)
    /\ twinArrives(twin.voiceSessions,
                   IF IsSome(twin.voiceSessions[sessionKey(sid, mid)])
                   THEN "leave_insert" ELSE "done")

\* the move branch: the insert is awaited if a session was found, and the
\* new session is stored after it
TwinMove(sid, mid, c) ==
    /\ Len(handlers) < MaxTwinEvents
    /\ VoiceMove(sid, mid, c)
    /\ IF IsSome(twin.voiceSessions[sessionKey(sid, mid)])
       THEN twinArrives(twin.voiceSessions, "move_insert")
       ELSE twinArrives(twinSet(sessionKey(sid, mid), newSession(now, c)), "done")

TwinSame(sid, mid) ==
    /\ Len(handlers) < MaxTwinEvents
    /\ VoiceSame(sid, mid)
    /\ twinArrives(twin.voiceSessions, "done")

\* handler i of the second run is suspended on a supabase call
twinSuspended(i) == twin.pc[i] \notin {"done", "caught"}

\* the awaited call of handler i of the second run answers r
twinResumes(i, r) ==
    LET h == handlers[i]
        key == sessionKey(h.serverId, h.memberId)
        pc == twin.pc[i]
        ends(table, at) == twin' = [voiceSessions |-> table,
                                    pc |-> [twin.pc EXCEPT ![i] = at]]
    IN  IF r = "throw" THEN ends(twin.voiceSessions, "caught")
        ELSE CASE pc = "leave_insert" -> ends(twin.voiceSessions, "leave_select")
               [] pc = "leave_select" ->
                    IF r = "ok" /\ IsSome(members[<<h.serverId, h.memberId>>])
                    THEN ends(twin.voiceSessions, "leave_update")
                    ELSE ends(twinDelete(key), "done")
               [] pc = "leave_update" -> ends(twinDelete(key), "done")
               [] pc = "move_insert" -> ends(twinSet(key, newSession(now, h.new)), "done")

\* the awaited call of handler i of the first run answers r
Resumes(i, r) ==
    \/ LeaveInsertReturns(i, r)
    \/ LeaveSelectReturns(i, r)
    \/ LeaveUpdateReturns(i, r)
    \/ MoveInsertReturns(i, r)

\* handler i is resumed in both runs, each with its own answer
BothResume(i, r1, r2) ==
    /\ twinSuspended(i)
    /\ Resumes(i, r1)
    /\ twinResumes(i, r2)

\* handler i is resumed in the one run in which it is still suspended
FirstResumes(i, r) ==
    /\ ~twinSuspended(i)
    /\ Resumes(i, r)
    /\ UNCHANGED twin
SecondResumes(i, r) ==
    /\ handlers[i].pc \in {"done", "caught"}
    /\ twinSuspended(i)
    /\ twinResumes(i, r)
    /\ UNCHANGED <<now, channel, voiceSessions, handlers, emitted, members,
                   msgVars, joinVars>>

NextTwin ==
    \/ Tick /\ UNCHANGED twin
    \/ \E p \in Pairs, c \in Channels : TwinJoin(p[1], p[2], c)
    \/ \E p \in Pairs : TwinLeave(p[1], p[2])
    \/ \E p \in Pairs, c \in Channels : TwinMove(p[1], p[2], c)
    \/ \E p \in Pairs : TwinSame(p[1], p[2])
    \/ \E i \in 1..Len(handlers), r1 \in Outcomes, r2 \in Outcomes : BothResume(i, r1, r2)
    \/ \E i \in 1..Len(handlers), r \in Outcomes : FirstResumes(i, r)
    \/ \E i \in 1..Len(handlers), r \in Outcomes : SecondResumes(i, r)

SpecTwin == Init /\ [][NextTwin]_vars

\* two members of two servers whose ids would give one key if the key were
\* the plain concatenation of the ids
KeyPairs == {<<"1", "12">>, <<"11", "2">>}

\* the process is started with no member in a voice channel
InitKeys ==
    /\ now = 0
    /\ channel = [p \in KeyPairs |-> NoChannel]
    /\ voiceSessions = [k \in {sessionKey(p[1], p[2]) : p \in KeyPairs} |-> None]
    /\ handlers = <<>>
    /\ emitted = <<>>
    /\ members \in [KeyPairs -> {None, Some(insertedMemberRow)}]
    /\ msgHandlers = <<>>
    /\ messages_daily = None
    /\ member_interactions = <<>>
    /\ memberHandlers = <<>>
    /\ member_events = <<>>
    /\ twin = [voiceSessions |-> voiceSessions, pc |-> <<>>]

\* the voice events of the two members, handled concurrently
NextKeys ==
    \/ Tick /\ UNCHANGED twin
    \/ \E p \in KeyPairs, c \in Channels :
          Len(handlers) < MaxKeyEvents /\ VoiceJoin(p[1], p[2], c) /\ UNCHANGED twin
    \/ \E p \in KeyPairs :
          Len(handlers) < MaxKeyEvents /\ VoiceLeave(p[1], p[2]) /\ UNCHANGED twin
    \/ \E p \in KeyPairs, c \in Channels :
          Len(handlers) < MaxKeyEvents /\ VoiceMove(p[1], p[2], c) /\ UNCHANGED twin
    \/ \E p \in KeyPairs :
          Len(handlers) < MaxKeyEvents /\ VoiceSame(p[1], p[2]) /\ UNCHANGED twin
    \/ \E i \in 1..Len(handlers), r \in Outcomes : LeaveInsertReturns(i, r) /\ UNCHANGED twin
    \/ \E i \in 1..Len(handlers), r \in Outcomes : LeaveSelectReturns(i, r) /\ UNCHANGED twin
    \/ \E i \in 1..Len(handlers), r \in Outcomes : LeaveUpdateReturns(i, r) /\ UNCHANGED twin
    \/ \E i \in 1..Len(handlers), r \in Outcomes : MoveInsertReturns(i, r) /\ UNCHANGED twin

SpecKeys == InitKeys /\ [][NextKeys]_vars

----------------------------------------------------------------------------
(* MessageCreate and saveInteraction *)

\* the raw message: author, guild (absent in a direct message), the users
\* mentioned in the text in order of occurrence, and the reply reference
SeqsUpTo(S, n) == UNION {[1..k -> S] : k \in 0..n}

\* (a message that is no reply has no replied-to user; of the messages the
\* filters drop, those without mentions and reply stand for all)
MessagesUpTo(n) ==
    {msg \in [author : Users \cup Bots,
              guild : {None} \cup {Some(g) : g \in Servers},
              mentioned : SeqsUpTo(Accounts, n),
              reference : BOOLEAN,
              repliedUser : {None} \cup {Some(u) : u \in Accounts}] :
        /\ ~msg.reference => msg.repliedUser = None
        /\ (msg.author \in Bots \/ msg.guild = None)
             => (msg.mentioned = <<>> /\ ~msg.reference)}

Messages == MessagesUpTo(MaxMentions)

\* user.bot
isBot(u) == u \in Bots

\* message.mentions.users is a Collection keyed by user id: one entry per
\* mentioned user, in order of first occurrence
RECURSIVE mentionsUsers(_)
mentionsUsers(occ) ==
    IF occ = <<>> THEN <<>>
    ELSE LET init == mentionsUsers(SubSeq(occ, 1, Len(occ) - 1))
             u == occ[Len(occ)]
         IN  IF \E n \in 1..Len(init) : init[n] = u THEN init ELSE Append(init, u)

\* a plausible slip: the loop runs over message.mentions.users itself
mentionedUsersUnfiltered(msg) == mentionsUsers(msg.mentioned)

\* message.mentions.users.filter(user => !user.bot)
mentionedUsers(msg) == SelectSeq(mentionsUsers(msg.mentioned), LAMBDA u : ~isBot(u))

\* saveInteraction: if (sourceId === targetId) return;
saveInteractionProceeds(sourceId, targetId) == sourceId /= targetId

\* if (message.reference?.messageId) { if (repliedUser && !repliedUser.bot &&
\*     repliedUser.id !== authorId) ... }
replyTargets(msg) ==
    IF /\ msg.reference
       /\ IsSome(msg.repliedUser)
       /\ ~isBot(Get(msg.repliedUser))
       /\ Get(msg.repliedUser) /= msg.author
    THEN <<Get(msg.repliedUser)>> ELSE <<>>

edge(targetId, interactionType) == [target |-> targetId, type |-> interactionType]

\* the saveInteraction calls of one message that get past the self check,
\* in the order the handler makes them
interactionsOf(msg) ==
    LET ms == SelectSeq(mentionedUsers(msg),
                        LAMBDA u : saveInteractionProceeds(msg.author, u))
        rs == SelectSeq(replyTargets(msg),
                        LAMBDA u : saveInteractionProceeds(msg.author, u))
    IN  [n \in 1..Len(ms) |-> edge(ms[n], "mention")]
        \o [n \in 1..Len(rs) |-> edge(rs[n], "reply")]

\* the local variables of one invocation of the MessageCreate handler: pc is
\* the supabase call it awaits (or made last), idx the interaction at hand,
\* caught whether it ended in the catch block of line 210
newMsgHandler(msg, pc) ==
    [msg |-> msg, pc |-> pc, idx |-> 0, existing |-> None, caught |-> FALSE]

\* if (message.author.bot) return; if (!message.guild) return;
\* then supabase.rpc('increment_message_count', ...)
MessageCreate(msg) ==
    /\ Len(msgHandlers) < MaxMessages
    /\ msgHandlers' = Append(msgHandlers,
          IF isBot(msg.author) \/ ~IsSome(msg.guild)
          THEN newMsgHandler(msg, "dropped")
          ELSE newMsgHandler(msg, "rpc"))
    /\ UNCHANGED <<twin, joinVars, now, channel, voiceSessions, handlers, emitted, members,
                   messages_daily, member_interactions>>

\* the handler moves on to its next supabase call
goto(i, pc, n, existing) ==
    msgHandlers' = [msgHandlers EXCEPT
        ![i].pc = pc, ![i].idx = n, ![i].existing = existing]
\* the handler ends: after its last statement, or in catch (error) of line 210
finish(i) == msgHandlers' = [msgHandlers EXCEPT ![i].pc = "done"]
\* a plausible slip: the catch block runs the handler again from its first call
catchRetries(i) == goto(i, "rpc", 0, None)
catch(i) == msgHandlers' = [msgHandlers EXCEPT ![i].caught = TRUE]

\* "2. Upsert em members": the select comes first
gotoMembers(i) == goto(i, "mem_select", 0, None)

\* the loop over mentionedUsers and the reply: saveInteraction for entry n of
\* the work list, or the end of the handler
gotoInteraction(i, n) ==
    IF n <= Len(interactionsOf(msgHandlers[i].msg))
    THEN goto(i, "int_select", n, None)
    ELSE finish(i)

RpcOutcomes == Outcomes \cup {"nofunction"}

\* await supabase.rpc(...): r = "nofunction" is an error whose message
\* includes 'function', answered by the manual upsert of messages_daily
RpcReturns(i, r) ==
    /\ msgHandlers[i].pc = "rpc"
    /\ ~msgHandlers[i].caught
    /\ messages_daily' = IF r = "ok" THEN Some(orZero(messages_daily) + 1)
                         ELSE messages_daily
    /\ CASE r = "throw" -> catch(i)
         [] r = "nofunction" -> goto(i, "md_select", 0, None)
         [] OTHER -> gotoMembers(i)
    /\ UNCHANGED <<twin, joinVars, now, channel, voiceSessions, handlers, emitted, members,
                   member_interactions>>

\* await supabase.from('messages_daily').select(...).single()
MdSelectReturns(i, r) ==
    LET existing == IF r = "ok" THEN messages_daily ELSE None
    IN  /\ msgHandlers[i].pc = "md_select"
        /\ ~msgHandlers[i].caught
        /\ IF r = "throw" THEN catch(i)
           ELSE IF IsSome(existing) THEN goto(i, "md_update", 0, existing)
           ELSE goto(i, "md_insert", 0, None)
        /\ UNCHANGED <<twin, joinVars, now, channel, voiceSessions, handlers, emitted, members,
                       messages_daily, member_interactions>>

\* await supabase.from('messages_daily').update / insert
MdWriteReturns(i, r) ==
    LET h == msgHandlers[i]
    IN  /\ h.pc \in {"md_update", "md_insert"}
        /\ ~h.caught
        /\ messages_daily' =
             IF r /= "ok" THEN messages_daily
             ELSE IF h.pc = "md_update"
             THEN (IF IsSome(messages_daily) THEN Some(Get(h.existing) + 1)
                   ELSE messages_daily)
             ELSE (IF IsSome(messages_daily) THEN messages_daily ELSE Some(1))
        /\ IF r = "throw" THEN catch(i) ELSE gotoMembers(i)
        /\ UNCHANGED <<twin, joinVars, now, channel, voiceSessions, handlers, emitted, members,
                       member_interactions>>

\* await supabase.from('members').select('id, total_messages')...single()
MemSelectReturns(i, r) ==
    LET h == msgHandlers[i]
        existingMember == IF r = "ok" THEN members[<<Get(h.msg.guild), h.msg.author>>]
                          ELSE None
    IN  /\ h.pc = "mem_select"
        /\ ~h.caught
        /\ IF r = "throw" THEN catch(i)
           ELSE IF IsSome(existingMember)
           THEN goto(i, "mem_update", 0,
                     Some(Get(existingMember).total_messages))
           ELSE goto(i, "mem_insert", 0, None)
        /\ UNCHANGED <<twin, joinVars, now, channel, voiceSessions, handlers, emitted, members,
                       messages_daily, member_interactions>>

\* await supabase.from('members').update / insert, then the first interaction
MemWriteReturns(i, r) ==
    LET h == msgHandlers[i]
        p == <<Get(h.msg.guild), h.msg.author>>
    IN  /\ h.pc \in {"mem_update", "mem_insert"}
        /\ ~h.caught
        /\ members' =
             IF r /= "ok" THEN members
             ELSE IF h.pc = "mem_update"
             THEN (IF IsSome(members[p])
                   THEN [members EXCEPT ![p] = Some([Get(members[p]) EXCEPT
                            !.total_messages = Get(h.existing) + 1])]
                   ELSE members)
             ELSE (IF IsSome(members[p]) THEN members
                   ELSE [members EXCEPT ![p] = Some(insertedMemberRow)])
        /\ IF r = "throw" THEN catch(i) ELSE gotoInteraction(i, 1)
        /\ UNCHANGED <<twin, joinVars, now, channel, voiceSessions, handlers, emitted,
                       messages_daily, member_interactions>>

\* the member_interactions row of (server, source, target, type, channel, date)
interactionKey(h) ==
    [server_id |-> Get(h.msg.guild), source_member_id |-> h.msg.author,
     target_member_id |-> interactionsOf(h.msg)[h.idx].target,
     interaction_type |-> interactionsOf(h.msg)[h.idx].type,
     channel_id |-> TextChannel]

rowsOf(key) ==
    {n \in 1..Len(member_interactions) : member_interactions[n].key = key}

\* saveInteraction: await supabase.from('member_interactions').select(...).single()
IntSelectReturns(i, r) ==
    LET h == msgHandlers[i]
        rows == rowsOf(interactionKey(h))
        existing == IF r = "ok" /\ Cardinality(rows) = 1
                    THEN Some(member_interactions[CHOOSE n \in rows : TRUE].count)
                    ELSE None
    IN  /\ h.pc = "int_select"
        /\ IF r = "throw" THEN gotoInteraction(i, h.idx + 1)
           ELSE IF IsSome(existing) THEN goto(i, "int_update", h.idx, existing)
           ELSE goto(i, "int_insert", h.idx, None)
        /\ UNCHANGED <<twin, joinVars, now, channel, voiceSessions, handlers, emitted, members,
                       messages_daily, member_interactions>>

\* saveInteraction: await supabase.from('member_interactions').update / insert;
\* a throw is caught inside saveInteraction and the handler goes on
IntWriteReturns(i, r) ==
    LET h == msgHandlers[i]
        key == interactionKey(h)
    IN  /\ h.pc \in {"int_update", "int_insert"}
        /\ member_interactions' =
             IF r /= "ok" THEN member_interactions
             ELSE IF h.pc = "int_update"
             THEN [n \in 1..Len(member_interactions) |->
                     IF member_interactions[n].key = key
                     THEN [member_interactions[n] EXCEPT !.count = Get(h.existing) + 1]
                     ELSE member_interactions[n]]
             ELSE Append(member_interactions, [key |-> key, count |-> 1])
        /\ gotoInteraction(i, h.idx + 1)
        /\ UNCHANGED <<twin, joinVars, now, channel, voiceSessions, handlers, emitted, members,
                       messages_daily>>

NextMsg ==
    \/ \E msg \in Messages : MessageCreate(msg)
    \/ \E i \in 1..Len(msgHandlers), r \in RpcOutcomes : RpcReturns(i, r)
    \/ \E i \in 1..Len(msgHandlers), r \in Outcomes : MdSelectReturns(i, r)
    \/ \E i \in 1..Len(msgHandlers), r \in Outcomes : MdWriteReturns(i, r)
    \/ \E i \in 1..Len(msgHandlers), r \in Outcomes : MemSelectReturns(i, r)
    \/ \E i \in 1..Len(msgHandlers), r \in Outcomes : MemWriteReturns(i, r)
    \/ \E i \in 1..Len(msgHandlers), r \in Outcomes : IntSelectReturns(i, r)
    \/ \E i \in 1..Len(msgHandlers), r \in Outcomes : IntWriteReturns(i, r)

\* the process is started with no member in a voice channel
InitMsg == Init /\ channel = [p \in Pairs |-> NoChannel]

SpecMsg == InitMsg /\ [][NextMsg]_vars

\* the message handlers when every supabase call succeeds, started on
\* empty tables
InitCounted == InitMsg /\ members = [k \in MemberKeys |-> None]

NextCounted ==
    \/ \E msg \in Messages : MessageCreate(msg)
    \/ \E i \in 1..Len(msgHandlers) : RpcReturns(i, "ok")
    \/ \E i \in 1..Len(msgHandlers) : MemSelectReturns(i, "ok")
    \/ \E i \in 1..Len(msgHandlers) : MemWriteReturns(i, "ok")
    \/ \E i \in 1..Len(msgHandlers) : IntSelectReturns(i, "ok")
    \/ \E i \in 1..Len(msgHandlers) : IntWriteReturns(i, "ok")

SpecCounted == InitCounted /\ [][NextCounted]_vars

\* one message, handled from its first call to its last with no other
\* message in flight; its text may mention up to MaxMentionsAlone users
MessageCreateAlone(msg) == msgHandlers = <<>> /\ MessageCreate(msg)

NextOne ==
    \/ \E msg \in MessagesUpTo(MaxMentionsAlone) : MessageCreateAlone(msg)
    \/ \E i \in 1..Len(msgHandlers), r \in RpcOutcomes : RpcReturns(i, r)
    \/ \E i \in 1..Len(msgHandlers), r \in Outcomes : MdSelectReturns(i, r)
    \/ \E i \in 1..Len(msgHandlers), r \in Outcomes : MdWriteReturns(i, r)
    \/ \E i \in 1..Len(msgHandlers), r \in Outcomes : MemSelectReturns(i, r)
    \/ \E i \in 1..Len(msgHandlers), r \in Outcomes : MemWriteReturns(i, r)
    \/ \E i \in 1..Len(msgHandlers), r \in Outcomes : IntSelectReturns(i, r)
    \/ \E i \in 1..Len(msgHandlers), r \in Outcomes : IntWriteReturns(i, r)

SpecOne == InitMsg /\ [][NextOne]_vars

----------------------------------------------------------------------------
(* GuildMemberAdd and GuildMemberRemove *)

\* the local variables of one invocation: pc is the supabase call it awaits
newMemberHandler(sid, u, kind, pc) ==
    [serverId |-> sid, memberId |-> u, kind |-> kind, pc |-> pc]

\* client.on(Events.GuildMemberAdd, ...): the handler starts with the upsert
\* of the members row, whoever the member is
GuildMemberAdd(sid, u) ==
    /\ Len(memberHandlers) < MaxMemberEvents
    /\ memberHandlers' = Append(memberHandlers,
                                newMemberHandler(sid, u, "join", "members_upsert"))
    /\ UNCHANGED <<twin, member_events, now, channel, voiceSessions, handlers,
                   emitted, members, msgVars>>

\* client.on(Events.GuildMemberRemove, ...): the handler starts with the
\* update of is_active, whoever the member is
GuildMemberRemove(sid, u) ==
    /\ Len(memberHandlers) < MaxMemberEvents
    /\ memberHandlers' = Append(memberHandlers,
                                newMemberHandler(sid, u, "leave", "members_update"))
    /\ UNCHANGED <<twin, member_events, now, channel, voiceSessions, handlers,
                   emitted, members, msgVars>>

setMemberPc(i, pc) == memberHandlers' = [memberHandlers EXCEPT ![i].pc = pc]

\* upsert({..., total_messages: 0, ...}, { onConflict: 'server_id,discord_id' }):
\* a new row has no total_voice_minutes, an existing row keeps its own
upsertedMemberRow(row) ==
    IF IsSome(row) THEN [Get(row) EXCEPT !.total_messages = 0]
    ELSE [total_messages |-> 0, total_voice_minutes |-> None]

\* await supabase.from('members').upsert(...) of GuildMemberAdd; an { error }
\* returned is not looked at
MembersUpsertReturns(i, r) ==
    LET h == memberHandlers[i]
        k == <<h.serverId, h.memberId>>
    IN  /\ h.pc = "members_upsert"
        /\ members' = IF r = "ok"
                      THEN [members EXCEPT ![k] = Some(upsertedMemberRow(members[k]))]
                      ELSE members
        /\ setMemberPc(i, IF r = "throw" THEN "caught" ELSE "events_insert")
        /\ UNCHANGED <<twin, member_events, now, channel, voiceSessions, handlers,
                       emitted, msgVars>>

\* await supabase.from('members').update({ is_active: false }) of
\* GuildMemberRemove: the columns of the members rows kept here do not change
MembersUpdateReturns(i, r) ==
    /\ memberHandlers[i].pc = "members_update"
    /\ setMemberPc(i, IF r = "throw" THEN "caught" ELSE "events_insert")
    /\ UNCHANGED <<twin, member_events, now, channel, voiceSessions, handlers,
                   emitted, members, msgVars>>

\* await supabase.from('member_events').insert(...) of either handler
EventsInsertReturns(i, r) ==
    LET h == memberHandlers[i]
    IN  /\ h.pc = "events_insert"
        /\ member_events' =
             IF r = "ok"
             THEN Append(member_events,
                         [server_id |-> h.serverId, member_discord_id |-> h.memberId,
                          event_type |-> h.kind])
             ELSE member_events
        /\ setMemberPc(i, IF r = "throw" THEN "caught" ELSE "done")
        /\ UNCHANGED <<twin, now, channel, voiceSessions, handlers, emitted,
                       members, msgVars>>

\* the messages the filters of MessageCreate drop
DroppedMessages ==
    {msg \in Messages : isBot(msg.author) \/ ~IsSome(msg.guild)}

\* the events of bot accounts, direct messages, and the member events of
\* every account
NextFilters ==
    \/ \E sid \in Servers, b \in Bots : VoiceIgnored(sid, b) /\ UNCHANGED twin
    \/ \E msg \in DroppedMessages : MessageCreate(msg)
    \/ \E k \in MemberKeys : GuildMemberAdd(k[1], k[2])
    \/ \E k \in MemberKeys : GuildMemberRemove(k[1], k[2])
    \/ \E i \in 1..Len(memberHandlers), r \in Outcomes : MembersUpsertReturns(i, r)
    \/ \E i \in 1..Len(memberHandlers), r \in Outcomes : MembersUpdateReturns(i, r)
    \/ \E i \in 1..Len(memberHandlers), r \in Outcomes : EventsInsertReturns(i, r)

SpecFilters == InitMsg /\ [][NextFilters]_vars

----------------------------------------------------------------------------
(* Vocabulary of the properties *)

Finished(h) == h.pc \in {"done", "caught"}
AllDone == \A i \in 1..Len(handlers) : Finished(handlers[i])
\* every handler ran to its end without entering its catch block
AllDoneNoThrow == \A i \in 1..Len(handlers) : handlers[i].pc = "done"

HandlersOf(p) ==
    {i \in 1..Len(handlers) : handlers[i].serverId = p[1] /\ handlers[i].memberId = p[2]}
Last(S) == CHOOSE x \in S : \A y \in S : y <= x
First(S) == CHOOSE x \in S : \A y \in S : x <= y

\* the channel the member was in when the process started
InitialChannel(p) ==
    IF HandlersOf(p) = {} THEN channel[p] ELSE handlers[First(HandlersOf(p))].old

\* the events in which the member left a channel (leave or move-out)
LeftOf(p) == {i \in HandlersOf(p) : handlers[i].kind \in {"leave", "move"}}
\* the events in which the member entered a channel (join or move-in)
EnteredOf(p) == {i \in HandlersOf(p) : handlers[i].kind \in {"join", "move"}}

RecordsOf(p) ==
    {n \in 1..Len(emitted) :
        emitted[n].server_id = p[1] /\ emitted[n].member_discord_id = p[2]}

\* the step is the arrival of an event, whose handler is then the last one
Arrival == Len(handlers') = Len(handlers) + 1
Arriving == handlers'[Len(handlers')]

----------------------------------------------------------------------------
(* C1: a completed move that found an open session emitted its record for  *)
(* the vacated channel, and that record's ended-at equals the started-at   *)
(* of the session the handler stored for the destination.                  *)
C1_MoveUsesOneTimestamp ==
    \A i \in 1..Len(handlers) :
        LET h == handlers[i]
        IN  (h.kind = "move" /\ IsSome(h.session) /\ h.pc = "done")
            => /\ Get(h.session).channelId = h.old
               /\ h.opened = Some(h.at)

(* C2: the open-session table is mutated only in the synchronous segment   *)
(* that runs when an event arrives, never in a segment resumed after an    *)
(* awaited Sink call.                                                      *)
C2_MutationBeforeSuspension ==
    [][voiceSessions' /= voiceSessions => Arrival]_vars

(* C3: for a member that was in no channel at start, the number of         *)
(* voice_sessions records emitted equals the number of leave and move-out  *)
(* events.                                                                 *)
C3_RecordPerLeftTransition ==
    \A p \in Pairs :
        InitialChannel(p) = NoChannel
        => Cardinality(RecordsOf(p)) = Cardinality(LeftOf(p))

(* C4: for a member that was in no channel at start, once every handler    *)
(* has completed the table has no entry if the member is in no channel,    *)
(* and otherwise an entry for the member's channel whose started-at is the *)
(* time of the event in which the member entered it (stated for the runs   *)
(* in which no Sink call throws).                                          *)
C4_TableMatchesLastObservation ==
    AllDoneNoThrow =>
        \A p \in Pairs :
            LET entry == voiceSessions[sessionKey(p[1], p[2])]
            IN  InitialChannel(p) = NoChannel
                => IF channel[p] = NoChannel
                   THEN entry = None
                   ELSE /\ IsSome(entry)
                        /\ Get(entry).channelId = channel[p]
                        /\ Get(entry).startedAt = handlers[Last(EnteredOf(p))].at

(* C5 as claimed: a leave or a move-out that finds no entry for its key    *)
(* emits no record and leaves the table unchanged.                         *)
C5_NoEntryNoEffect ==
    [][(Arrival /\ Arriving.kind \in {"leave", "move"} /\ Arriving.session = None)
        => (emitted' = emitted /\ voiceSessions' = voiceSessions)]_vars

(* C5 amended: a leave or a move-out that finds no entry for its key emits *)
(* no record; the leave leaves the table unchanged, the move-out changes   *)
(* the table only by opening a session for the destination channel,        *)
(* started at the time of the event.                                       *)
C5_NoEntryNoRecord ==
    [][(Arrival /\ Arriving.kind \in {"leave", "move"} /\ Arriving.session = None)
        => /\ emitted' = emitted
           /\ voiceSessions' =
                IF Arriving.kind = "leave" THEN voiceSessions
                ELSE [voiceSessions EXCEPT
                        ![sessionKey(Arriving.serverId, Arriving.memberId)] =
                            Some(newSession(now, Arriving.new))]]_vars

\* a move-out handled with no entry for its key has opened the destination's session
C5_Witness ==
    \E i \in 1..Len(handlers) :
        /\ handlers[i].kind = "move"
        /\ handlers[i].session = None
        /\ emitted = <<>>
        /\ voiceSessions[sessionKey(handlers[i].serverId, handlers[i].memberId)]
             = Some(newSession(handlers[i].at, handlers[i].new))

(* C6: the intervals [started-at, ended-at) of the records emitted for one *)
(* member do not overlap pairwise.  (An entry used for two records of      *)
(* positive length gives two overlapping intervals.)                       *)
C6_NoOverlap ==
    \A p \in Pairs : \A m, n \in RecordsOf(p) :
        m < n => \/ emitted[m].ended_at <= emitted[n].started_at
                 \/ emitted[n].ended_at <= emitted[m].started_at
                 \/ emitted[m].started_at = emitted[m].ended_at
                 \/ emitted[n].started_at = emitted[n].ended_at

(* C7: in every MessageCreate handler that has ended, whatever Sink calls   *)
(* failed (returned an error or threw), the later facts of the message     *)
(* were attempted: the members upsert and every interaction edge.          *)
MemberUpsertAttempted(h) == h.pc \notin {"rpc", "md_select", "md_update", "md_insert"}
InteractionsAttempted(h) == interactionsOf(h.msg) = <<>> \/ h.pc = "done"

C7_LaterFactsAttempted ==
    \A i \in 1..Len(msgHandlers) :
        LET h == msgHandlers[i]
        IN  (h.pc = "done" \/ h.caught)
            => MemberUpsertAttempted(h) /\ InteractionsAttempted(h)

(* C8: while the handler of the latest event of a key is suspended on a    *)
(* Sink call, the table already shows that event's transition: no entry    *)
(* after a leave, the destination's session after a move.                  *)
C8_TransitionAppliedWhileSuspended ==
    \A p \in Pairs :
        HandlersOf(p) /= {} =>
            LET h == handlers[Last(HandlersOf(p))]
                entry == voiceSessions[sessionKey(p[1], p[2])]
            IN  ~Finished(h) =>
                    /\ h.kind = "leave" => entry = None
                    /\ h.kind = "move"
                         => IsSome(entry) /\ Get(entry).channelId = h.new

(* C9: every emitted record has ended-at >= started-at and a duration that *)
(* is the integer nearest to (ended-at - started-at) / 60000, a half       *)
(* rounding up, and is not negative.                                       *)
C9_DurationRounded ==
    \A n \in 1..Len(emitted) :
        LET r == emitted[n]
            ms == r.ended_at - r.started_at
        IN  /\ ms >= 0
            /\ r.duration_minutes >= 0
            /\ 2 * MsPerMinute * r.duration_minutes <= 2 * ms + MsPerMinute
            /\ 2 * ms + MsPerMinute < 2 * MsPerMinute * (r.duration_minutes + 1)

\* a record of exactly half a minute has been emitted with duration 1
C9_Witness ==
    \E n \in 1..Len(emitted) :
        /\ 2 * (emitted[n].ended_at - emitted[n].started_at) = MsPerMinute
        /\ emitted[n].duration_minutes = 1

(* C10: the table holds at most one session per key, and once every        *)
(* handler has completed an entry exists only for a member that is in a    *)
(* voice channel (stated for the runs in which no Sink call throws).       *)
C10_EntryOnlyWhileInChannel ==
    \A p \in Pairs :
        LET entry == voiceSessions[sessionKey(p[1], p[2])]
        IN  /\ Len(entry) <= 1
            /\ (AllDoneNoThrow /\ IsSome(entry)) => channel[p] /= NoChannel

----------------------------------------------------------------------------
\* C11: an event whose previous and new channel are the same channel (mute,
\* deafen, ...) emits no record, leaves the session table as it was and
\* makes no supabase call.
C11_SameChannelNoOp ==
    [][(Arrival /\ Arriving.kind = "same") =>
          /\ emitted' = emitted
          /\ voiceSessions' = voiceSessions
          /\ Arriving.pc = "done"]_vars

\* a same-channel event handled while the member's session, opened at an
\* earlier clock value, is in the table
C11_Witness ==
    \E i \in 1..Len(handlers) :
        LET h == handlers[i]
            entry == voiceSessions[sessionKey(h.serverId, h.memberId)]
        IN  /\ h.kind = "same"
            /\ IsSome(entry)
            /\ Get(entry).startedAt < h.at
            /\ Get(entry).channelName = channelName(h.new)

----------------------------------------------------------------------------
\* the supabase calls of saveInteraction, and the edge a handler has at hand
IntPcs == {"int_select", "int_update", "int_insert"}
EdgeAtHand(h) == interactionsOf(h.msg)[h.idx]

\* C12: no interaction edge is handed to supabase, and none is stored, whose
\* target is the author of the message or a bot account.
C12_NoSelfNoBotEdge ==
    /\ \A i \in 1..Len(msgHandlers) :
          LET h == msgHandlers[i]
          IN  h.pc \in IntPcs =>
                /\ EdgeAtHand(h).target /= h.msg.author
                /\ ~isBot(EdgeAtHand(h).target)
    /\ \A n \in 1..Len(member_interactions) :
          LET key == member_interactions[n].key
          IN  /\ key.target_member_id /= key.source_member_id
              /\ ~isBot(key.target_member_id)

\* a message that mentions a bot or its own author was handled to its end
\* and an edge of the same message was stored
C12_Witness ==
    \E i \in 1..Len(msgHandlers) :
        LET h == msgHandlers[i]
        IN  /\ h.pc = "done"
            /\ ~h.caught
            /\ \E n \in 1..Len(h.msg.mentioned) :
                  isBot(h.msg.mentioned[n]) \/ h.msg.mentioned[n] = h.msg.author
            /\ member_interactions /= <<>>

\* one mention edge per occurrence in the text whose target is no bot and
\* not the author, then the reply edge if the replied-to user is resolved,
\* no bot and not the author
edgesPerOccurrence(msg) ==
    LET ms == SelectSeq(msg.mentioned, LAMBDA u : ~isBot(u) /\ u /= msg.author)
        rs == IF /\ msg.reference
                 /\ IsSome(msg.repliedUser)
                 /\ ~isBot(Get(msg.repliedUser))
                 /\ Get(msg.repliedUser) /= msg.author
              THEN <<Get(msg.repliedUser)>> ELSE <<>>
    IN  [n \in 1..Len(ms) |-> edge(ms[n], "mention")]
        \o [n \in 1..Len(rs) |-> edge(rs[n], "reply")]

\* C13: the edges a handler hands to supabase are, in order, one mention
\* edge per mention occurrence (target no bot, not the author; the same
\* user mentioned twice gives two edges) and at most one reply edge; a
\* handler that reaches its end has handed over all of them.
C13_EdgePerOccurrence ==
    \A i \in 1..Len(msgHandlers) :
        LET h == msgHandlers[i]
            want == edgesPerOccurrence(h.msg)
        IN  /\ h.pc \in IntPcs =>
                /\ h.idx <= Len(want)
                /\ EdgeAtHand(h) = want[h.idx]
            /\ (h.pc = "done" /\ ~h.caught) => h.idx = Len(want)

\* the fact a supabase call of the MessageCreate handler delivers, and the
\* attempt (one call, or one select-then-write) the call belongs to
factOf(h) ==
    CASE h.pc \in {"rpc", "md_select", "md_update", "md_insert"} -> <<"message">>
      [] h.pc \in {"mem_select", "mem_update", "mem_insert"} -> <<"member">>
      [] h.pc \in IntPcs -> <<"edge", h.idx>>
      [] OTHER -> <<>>
attemptOf(h) ==
    CASE h.pc = "rpc" -> "rpc"
      [] h.pc \in {"md_select", "md_update", "md_insert"} -> "manual"
      [] OTHER -> "upsert"
\* the position of a call in the handler's text
rankOf(h) ==
    CASE h.pc = "rpc" -> 1
      [] h.pc = "md_select" -> 2
      [] h.pc \in {"md_update", "md_insert"} -> 3
      [] h.pc = "mem_select" -> 4
      [] h.pc \in {"mem_update", "mem_insert"} -> 5
      [] h.pc = "int_select" -> 4 + 2 * h.idx
      [] h.pc \in {"int_update", "int_insert"} -> 5 + 2 * h.idx
      [] OTHER -> 0
\* handler i makes a supabase call in this step, after an earlier call of it
NextCall(i) ==
    /\ i <= Len(msgHandlers)
    /\ msgHandlers'[i] /= msgHandlers[i]
    /\ factOf(msgHandlers[i]) /= <<>>
    /\ factOf(msgHandlers'[i]) /= <<>>
    /\ ~msgHandlers'[i].caught

\* C15 as stated: once an attempt to deliver a fact is over, the handler
\* makes no other attempt for the same fact.
C15_NeverRetried ==
    [][\A i \in 1..Len(msgHandlers') :
          (NextCall(i) /\ factOf(msgHandlers'[i]) = factOf(msgHandlers[i]))
             => attemptOf(msgHandlers'[i]) = attemptOf(msgHandlers[i])]_vars

\* C15, amended: no supabase call is made twice (a handler only moves
\* forward through its calls), and the one second attempt for a fact is the
\* manual messages_daily upsert that follows the increment_message_count rpc.
C15_OnlyFallbackRetries ==
    [][\A i \in 1..Len(msgHandlers') :
          /\ NextCall(i) => rankOf(msgHandlers'[i]) > rankOf(msgHandlers[i])
          /\ (NextCall(i) /\ factOf(msgHandlers'[i]) = factOf(msgHandlers[i])
                /\ attemptOf(msgHandlers'[i]) /= attemptOf(msgHandlers[i]))
               => (msgHandlers[i].pc = "rpc" /\ msgHandlers'[i].pc = "md_select")
          /\ (i <= Len(msgHandlers) /\ msgHandlers[i].caught)
               => msgHandlers'[i] = msgHandlers[i]]_vars

\* the write of the manual upsert threw and the handler ended in its catch
\* block: both attempts for the message count are over
C15_Witness ==
    \E i \in 1..Len(msgHandlers) :
        /\ msgHandlers[i].caught
        /\ msgHandlers[i].pc \in {"md_update", "md_insert"}

----------------------------------------------------------------------------
\* C14: an event of a bot account (message, member join, member leave,
\* voice state) and a direct message are dropped before any supabase call:
\* their handlers end at once, no row is written for a bot, and the session
\* table stays as it was.
C14_BotEventsDropped ==
    /\ \A i \in 1..Len(msgHandlers) :
          LET h == msgHandlers[i]
          IN  (isBot(h.msg.author) \/ ~IsSome(h.msg.guild)) => h.pc = "dropped"
    /\ \A i \in 1..Len(handlers) :
          isBot(handlers[i].memberId) =>
              (handlers[i].pc = "done" /\ handlers[i].opened = None)
    /\ \A i \in 1..Len(memberHandlers) :
          isBot(memberHandlers[i].memberId) => memberHandlers[i].pc = "dropped"
    /\ \A k \in MemberKeys : isBot(k[2]) => members[k] = None
    /\ \A n \in 1..Len(member_events) : ~isBot(member_events[n].member_discord_id)
    /\ (\A i \in 1..Len(handlers) : isBot(handlers[i].memberId))
          => voiceSessions = [k \in SessionKeys |-> None]

----------------------------------------------------------------------------
\* handler i runs in this step: it arrives or one of its awaits returns
Acts(i) ==
    /\ i <= Len(handlers')
    /\ (i > Len(handlers) \/ handlers'[i] /= handlers[i])
\* a record of member q is emitted in this step
EmitsFor(q) ==
    /\ Len(emitted') > Len(emitted)
    /\ emitted'[Len(emitted')].server_id = q[1]
    /\ emitted'[Len(emitted')].member_discord_id = q[2]

\* C17: a step that changes or removes the table entry of a key, or emits a
\* record for it, is a step of a handler of that key's own event; and the
\* session a handler reads is the entry of its own key.
C17_KeysIndependent ==
    [][/\ \A q \in KeyPairs :
             (\/ voiceSessions'[sessionKey(q[1], q[2])]
                    /= voiceSessions[sessionKey(q[1], q[2])]
              \/ EmitsFor(q))
                => \E i \in 1..Len(handlers') :
                      /\ Acts(i)
                      /\ <<handlers'[i].serverId, handlers'[i].memberId>> = q
       /\ (Arrival /\ Arriving.kind \in {"leave", "move"}) =>
             Arriving.session =
                 voiceSessions[sessionKey(Arriving.serverId, Arriving.memberId)]
      ]_vars

\* both members joined, one of them left and its handler ran to its end
\* with a record emitted, and the other member's session is still open
C17_Witness ==
    \E p \in KeyPairs, q \in KeyPairs :
        /\ p /= q
        /\ voiceSessions[sessionKey(p[1], p[2])] = None
        /\ IsSome(voiceSessions[sessionKey(q[1], q[2])])
        /\ \E i \in 1..Len(handlers) :
              /\ handlers[i].kind = "leave"
              /\ <<handlers[i].serverId, handlers[i].memberId>> = p
              /\ handlers[i].pc = "done"
        /\ \E n \in 1..Len(emitted) :
              <<emitted[n].server_id, emitted[n].member_discord_id>> = p

----------------------------------------------------------------------------
\* C18: when a leave handler removes the entry of its key, no later join or
\* move of the same key has stored an entry since the leave was observed:
\* the entry removed is the one of the stay that the leave ended.
C18_DeleteRemovesOwnStay ==
    [][\A i \in 1..Len(handlers) :
          LET h == handlers[i]
              k == sessionKey(h.serverId, h.memberId)
          IN  (/\ h.kind = "leave"
               /\ handlers'[i] /= h
               /\ IsSome(voiceSessions[k])
               /\ voiceSessions'[k] = None)
                 => ~ \E j \in (i + 1)..Len(handlers) :
                        /\ handlers[j].serverId = h.serverId
                        /\ handlers[j].memberId = h.memberId
                        /\ IsSome(handlers[j].opened)]_vars

----------------------------------------------------------------------------
\* the sum of duration_minutes over the records emitted for member p
RECURSIVE sumOfDurations(_, _)
sumOfDurations(p, rows) ==
    IF rows = <<>> THEN 0
    ELSE LET row == rows[Len(rows)]
         IN  sumOfDurations(p, SubSeq(rows, 1, Len(rows) - 1))
             + (IF <<row.server_id, row.member_discord_id>> = p
                THEN row.duration_minutes ELSE 0)

\* C19: when every supabase call has succeeded and every handler has ended,
\* the total_voice_minutes of a member that has a members row is the sum of
\* duration_minutes over the records emitted for the member, for sessions
\* closed by a leave and for sessions closed by a move alike.
C19_TotalIsSumOfDurations ==
    \A p \in Pairs :
        (AllDoneNoThrow /\ IsSome(members[p])) =>
            orZero(Get(members[p]).total_voice_minutes) = sumOfDurations(p, emitted)

----------------------------------------------------------------------------
\* the messages of member k that got past the filters
MessagesHandled(k) ==
    {i \in 1..Len(msgHandlers) :
        /\ msgHandlers[i].pc /= "dropped"
        /\ <<Get(msgHandlers[i].msg.guild), msgHandlers[i].msg.author>> = k}
\* the saveInteraction calls made for a member_interactions key
EdgesSaved(key) ==
    {<<i, n>> \in (1..Len(msgHandlers)) \X (1..(MaxMentions + 1)) :
        /\ msgHandlers[i].pc /= "dropped"
        /\ n <= Len(interactionsOf(msgHandlers[i].msg))
        /\ interactionKey([msgHandlers[i] EXCEPT !.idx = n]) = key}

\* C20: when every supabase call has succeeded and every handler has ended,
\* total_messages of a member is the number of its messages handled, and
\* the count of a member_interactions row is the number of edges saved for
\* its key.
C20_NoLostIncrement ==
    (\A i \in 1..Len(msgHandlers) : msgHandlers[i].pc \in {"done", "dropped"}) =>
        /\ \A k \in Pairs :
              (IF IsSome(members[k]) THEN Get(members[k]).total_messages ELSE 0)
                 = Cardinality(MessagesHandled(k))
        /\ \A n \in 1..Len(member_interactions) :
              member_interactions[n].count
                 = Cardinality(EdgesSaved(member_interactions[n].key))

----------------------------------------------------------------------------
\* C16: two runs that handle the same voice events at the same times and
\* differ only in what their supabase calls answer have the same session
\* table once every handler of both runs has ended.
C16_TableIndependentOfSink ==
    (/\ AllDone
     /\ \A i \in 1..Len(twin.pc) : ~twinSuspended(i))
       => twin.voiceSessions = voiceSessions

====
